---- MODULE Spec2Model ----
(***************************************************************************)
(* Model of the input-chord matcher (Chord, ChordSet, CombineSets,         *)
(* ExecuteSets), of the Cycler, Selecter, NamedItems and Timer utilities,  *)
(* of CheckError and of the Buffer / Vao construction of quillaja/sgl.     *)
(*                                                                         *)
(* Time is a discrete clock `now` (seconds).  A handler runs at one        *)
(* instant of that clock.  The Execute callback of a chord is an opaque    *)
(* function: a chord's Execute field holds the identity of the callback,   *)
(* and running it is recorded as an event of the call's trace.             *)
(*                                                                         *)
(* Chord, ChordSet, CombineSets and ExecuteSets follow the version of the  *)
(* chord file whose ChordSet.Execute honours Stop.  sort.Sort is the       *)
(* insertion sort the Go library runs on slices of fewer than seven        *)
(* elements, over ChordSet.Less and ChordSet.Swap.                         *)
(***************************************************************************)
EXTENDS Integers, Sequences, FiniteSets, TLC

VARIABLES
    now,        \* the clock read by time.Now() / time.Since()
    pressed,    \* keys for which win.GetKey(k) == glfw.Press
    sets,       \* []ChordSet: a sequence of sequences of Chord records
    op,         \* the most recent call: its name, the set and index it was given,
                \* and in arg the slice or the Current it started from
    ret,        \* the value returned by the most recent call
    trace,      \* the Chord.Match tests and Execute runs of the most recent call of
                \* the current frame, each with what was known of its chord before
    lastMatch,  \* per callback identity: time of the chord's last successful Match
    idle,       \* callbacks whose chord has matched and has had no Match call since
    cyc,        \* a Cycler
    sel,        \* a Selecter
    items,      \* a NamedItems slice
    timer,      \* a Timer
    frames,     \* what the render loop did with the Timer since its last Reset
    glq,        \* the error codes the graphics driver holds for glGetError
    bufs        \* the Buffer objects made by NewVbo, by identity

vars == <<now, pressed, sets, op, ret, trace, lastMatch, idle, cyc, sel,
          items, timer, frames, glq, bufs>>

----------------------------------------------------------------------------
(* Bounds of the model *)

MaxTime == 2
MaxWait == 1
MaxSortChords == 3
MaxItems == 3
MaxIndex == 4
MaxFrames == 2
MaxErrors == 3
MaxVaos == 2

\* the keys a chord may list
KeySet == {1, 2}

\* the chord sets of the timed model: the key list of every chord, whether it
\* waits (MaxWait seconds) between matches, and the values of its Stop flag (in
\* a set of one chord Stop has no chord to act on).  The first set is not
\* sorted: CombineSets reorders it.
Layout ==
    << << [Keys |-> <<1>>, Waits |-> {TRUE}, Stops |-> BOOLEAN],
          [Keys |-> <<1, 2>>, Waits |-> BOOLEAN, Stops |-> BOOLEAN] >>,
       << [Keys |-> <<2>>, Waits |-> {FALSE}, Stops |-> {FALSE}] >> >>

\* the zero time.Time of a Chord that never matched: further in the past than
\* any Wait
ZeroTime == 0 - (MaxWait + 2)
Never == ZeroTime

----------------------------------------------------------------------------
(* Chord.Match *)

\* variant: the wait must be exceeded, not only reached
WaitElapsedStrict(c, t) == (t - c.lastPressed) > c.Wait

\* the negation of `time.Since(c.lastPressed).Seconds() < c.Wait`
WaitElapsed(c, t) == ~((t - c.lastPressed) < c.Wait)

\* variant: one pressed key of the chord is enough
KeysPressedAny(c, win) ==
    \/ Len(c.Keys) = 0
    \/ \E i \in 1..Len(c.Keys) : c.Keys[i] \in win

\* the loop over c.Keys: no key with win.GetKey(key) != glfw.Press
KeysPressed(c, win) == \A i \in 1..Len(c.Keys) : c.Keys[i] \in win

\* variant: a successful match does not restart the wait
MatchNoReset(c, win, t) ==
    IF ~WaitElapsed(c, t) THEN [ok |-> FALSE, c |-> c]
    ELSE IF ~KeysPressed(c, win) THEN [ok |-> FALSE, c |-> c]
    ELSE [ok |-> TRUE, c |-> c]

\* Chord.Match: the result and the chord as the call leaves it
Match(c, win, t) ==
    IF ~WaitElapsed(c, t) THEN [ok |-> FALSE, c |-> c]
    ELSE IF ~KeysPressed(c, win) THEN [ok |-> FALSE, c |-> c]
    ELSE [ok |-> TRUE, c |-> [c EXCEPT !.lastPressed = t]]

MatchEvent(c, i, ok) == [kind |-> "match", fn |-> c.Execute, idx |-> i, ok |-> ok]
ExecEvent(c, i) == [kind |-> "exec", fn |-> c.Execute, idx |-> i, ok |-> TRUE]

----------------------------------------------------------------------------
(* ChordSet.Match *)

\* variant: the scan goes on after a match and returns the last chord that matched
RECURSIVE MatchLast(_, _, _, _, _)
MatchLast(cs, win, t, i, found) ==
    IF i > Len(cs) THEN [ret |-> found, cs |-> cs, trace |-> <<>>]
    ELSE LET m == Match(cs[i], win, t)
             rest == MatchLast([cs EXCEPT ![i] = m.c], win, t, i + 1,
                               IF m.ok THEN i ELSE found)
         IN  [rest EXCEPT !.trace = <<MatchEvent(cs[i], i, m.ok)>> \o @]

\* the loop of ChordSet.Match from index i on; ret is the index of the chord
\* returned (1-based), 0 for nil
RECURSIVE MatchFrom(_, _, _, _)
MatchFrom(cs, win, t, i) ==
    IF i > Len(cs) THEN [ret |-> 0, cs |-> cs, trace |-> <<>>]
    ELSE LET m == Match(cs[i], win, t)
         IN  IF m.ok
             THEN [ret |-> i, cs |-> [cs EXCEPT ![i] = m.c],
                   trace |-> <<MatchEvent(cs[i], i, TRUE)>>]
             ELSE LET rest == MatchFrom(cs, win, t, i + 1)
                  IN  [rest EXCEPT !.trace = <<MatchEvent(cs[i], i, FALSE)>> \o @]

ChordSetMatchLast(cs, win, t) == MatchLast(cs, win, t, 1, 0)

ChordSetMatch(cs, win, t) == MatchFrom(cs, win, t, 1)

----------------------------------------------------------------------------
(* ChordSet.Execute, the version that honours Stop *)

\* the loop `for i := 0; i < len(cs) && !done; i++`
RECURSIVE ExecuteFrom(_, _, _, _, _)
ExecuteFrom(cs, win, t, i, done) ==
    IF i > Len(cs) \/ done THEN [cs |-> cs, trace |-> <<>>]
    ELSE LET m == Match(cs[i], win, t)
             cs1 == [cs EXCEPT ![i] = m.c]
         IN  IF m.ok
             THEN LET rest == ExecuteFrom(cs1, win, t, i + 1, cs[i].Stop)
                  IN  [rest EXCEPT !.trace =
                          <<MatchEvent(cs[i], i, TRUE), ExecEvent(cs[i], i)>> \o @]
             ELSE LET rest == ExecuteFrom(cs1, win, t, i + 1, done)
                  IN  [rest EXCEPT !.trace = <<MatchEvent(cs[i], i, FALSE)>> \o @]

\* variant: only the first matching chord is executed (ChordSet.Execute before Stop)
ChordSetExecuteFirstOnly(cs, win, t) ==
    LET m == ChordSetMatch(cs, win, t)
    IN  [cs |-> m.cs,
         trace |-> IF m.ret = 0 THEN m.trace
                   ELSE m.trace \o <<ExecEvent(cs[m.ret], m.ret)>>]

ChordSetExecute(cs, win, t) == ExecuteFrom(cs, win, t, 1, FALSE)

----------------------------------------------------------------------------
(* ExecuteSets, the version built on ChordSet.Execute *)

\* variant: an executed Stop chord also ends the execution of the sets after it
RECURSIVE ExecuteSetsUntilStop(_, _, _, _)
ExecuteSetsUntilStop(ss, win, t, s) ==
    IF s > Len(ss) THEN [sets |-> ss, trace |-> <<>>]
    ELSE LET e == ChordSetExecute(ss[s], win, t)
             stopped == \E k \in 1..Len(e.trace) :
                            e.trace[k].kind = "exec" /\ ss[s][e.trace[k].idx].Stop
             rest == IF stopped
                     THEN [sets |-> [ss EXCEPT ![s] = e.cs], trace |-> <<>>]
                     ELSE ExecuteSetsUntilStop([ss EXCEPT ![s] = e.cs], win, t, s + 1)
         IN  [rest EXCEPT !.trace = e.trace \o @]

\* the loop `for i := range sets { sets[i].Execute(win) }`
RECURSIVE ExecuteSetsFrom(_, _, _, _)
ExecuteSetsFrom(ss, win, t, s) ==
    IF s > Len(ss) THEN [sets |-> ss, trace |-> <<>>]
    ELSE LET e == ChordSetExecute(ss[s], win, t)
             rest == ExecuteSetsFrom([ss EXCEPT ![s] = e.cs], win, t, s + 1)
         IN  [rest EXCEPT !.trace = e.trace \o @]

ExecuteSetsStopAll(ss, win, t) == ExecuteSetsUntilStop(ss, win, t, 1)

ExecuteSets(ss, win, t) == ExecuteSetsFrom(ss, win, t, 1)

----------------------------------------------------------------------------
(* ChordSet.Less, ChordSet.Swap, sort.Sort, ChordSet.Sort, CombineSets *)

\* variant: chords of fewer keys sort first
LessFewerFirst(cs, i, j) == Len(cs[i].Keys) < Len(cs[j].Keys)

\* ChordSet.Less: i and j are 1-based positions
Less(cs, i, j) ==
    LET dLen == Len(cs[i].Keys) - Len(cs[j].Keys)
    IN  IF dLen = 0 /\ \E k \in 1..Len(cs[i].Keys) : cs[i].Keys[k] < cs[j].Keys[k]
        THEN TRUE
        ELSE dLen > 0

Swap(cs, i, j) == [cs EXCEPT ![i] = cs[j], ![j] = cs[i]]

\* the inner loop of insertionSort:
\* `for j := i; j > a && data.Less(j, j-1); j-- { data.Swap(j, j-1) }`
RECURSIVE SiftLeft(_, _)
SiftLeft(cs, j) ==
    IF j > 1 /\ Less(cs, j, j - 1) THEN SiftLeft(Swap(cs, j, j - 1), j - 1) ELSE cs

\* the outer loop of insertionSort: `for i := a + 1; i < b; i++`
RECURSIVE InsertionSortFrom(_, _)
InsertionSortFrom(cs, i) ==
    IF i > Len(cs) THEN cs ELSE InsertionSortFrom(SiftLeft(cs, i), i + 1)

\* sort.Sort on a slice of fewer than seven elements is an insertion sort
ChordSetSort(cs) == InsertionSortFrom(cs, 2)

CombineSets(ss) == [s \in 1..Len(ss) |-> ChordSetSort(ss[s])]

----------------------------------------------------------------------------
(* NamedItems.Sort: sort.Slice over the comparison of the Name strings.  A  *)
(* Name is the sequence of its bytes.                                       *)

\* a < b of two Go strings, decided from byte k on: the first differing byte
\* decides, and a proper prefix is less
RECURSIVE StringLessFrom(_, _, _)
StringLessFrom(a, b, k) ==
    IF k > Len(a) THEN k <= Len(b)
    ELSE IF k > Len(b) THEN FALSE
    ELSE IF a[k] # b[k] THEN a[k] < b[k]
    ELSE StringLessFrom(a, b, k + 1)

StringLess(a, b) == StringLessFrom(a, b, 1)

\* the less function NamedItems.Sort hands to sort.Slice
ItemLess(its, i, j) == StringLess(its[i].Name, its[j].Name)

\* the swapper sort.Slice makes for the slice
ItemSwap(its, i, j) == [its EXCEPT ![i] = its[j], ![j] = its[i]]

\* the inner loop of insertionSort_func
RECURSIVE ItemSiftLeft(_, _)
ItemSiftLeft(its, j) ==
    IF j > 1 /\ ItemLess(its, j, j - 1)
    THEN ItemSiftLeft(ItemSwap(its, j, j - 1), j - 1)
    ELSE its

\* the outer loop of insertionSort_func
RECURSIVE ItemInsertionSortFrom(_, _)
ItemInsertionSortFrom(its, i) ==
    IF i > Len(its) THEN its ELSE ItemInsertionSortFrom(ItemSiftLeft(its, i), i + 1)

\* NamedItems.Sort: sort.Slice on a slice of fewer than seven elements is an
\* insertion sort; the slice is sorted in place and returned
NamedItemsSort(its) == ItemInsertionSortFrom(its, 2)

----------------------------------------------------------------------------
(* Timer: the clock is read in whole seconds.  A number of seconds held in  *)
(* a float64 (DeltaT, TotalTime) is kept as sat and sec and stands for      *)
(* sat * 9223372036.854775807 + sec, the first being the seconds of the     *)
(* greatest time.Duration; a quotient of two float64 is kept as numerator   *)
(* and denominator.  Rounding of float64 is left out.                       *)

Seconds(n) == [sat |-> 0, sec |-> n]

\* the seconds of the greatest time.Duration, 2^63 - 1 nanoseconds
MaxDurationSeconds == [sat |-> 1, sec |-> 0]

\* current.Sub(u).Seconds(), current a reading of the clock: the Duration from
\* the zero time.Time to any such reading does not fit and Sub gives the
\* greatest Duration
SubSeconds(current, u) ==
    IF u = ZeroTime THEN MaxDurationSeconds ELSE Seconds(current - u)

AddSeconds(a, b) == [sat |-> a.sat + b.sat, sec |-> a.sec + b.sec]

\* variant: Reset also clears TotalTime
TimerResetAll(t, current) ==
    [t EXCEPT !.TotalFrames = 0, !.TotalTime = Seconds(0), !.DeltaT = Seconds(0),
              !.Now = current, !.Start = current]

\* Timer.Reset, time.Now() giving current
TimerReset(t, current) ==
    [t EXCEPT !.TotalFrames = 0, !.DeltaT = Seconds(0), !.Now = current,
              !.Start = current]

\* Timer.Update, time.Now() giving current
TimerUpdate(t, current) ==
    LET dt == SubSeconds(current, t.Now)
    IN  [t EXCEPT !.TotalFrames = @ + 1, !.DeltaT = dt, !.Now = current,
                  !.TotalTime = AddSeconds(@, dt)]

\* Timer.AvgFps: float64(t.TotalFrames) / t.TotalTime
TimerAvgFps(t) == [num |-> t.TotalFrames, den |-> t.TotalTime]

----------------------------------------------------------------------------
(* CheckError: the driver keeps the codes of the errors it recorded and     *)
(* gl.GetError() hands out and forgets one of them per call, NO_ERROR when  *)
(* it keeps none                                                            *)

NO_ERROR == 0
INVALID_ENUM == 1280
INVALID_VALUE == 1281
INVALID_OPERATION == 1282
STACK_OVERFLOW == 1283
STACK_UNDERFLOW == 1284
OUT_OF_MEMORY == 1285
INVALID_FRAMEBUFFER_OPERATION == 1286
\* a code the switch of CheckError has no case for
CONTEXT_LOST == 1287

\* gl.GetError() on the codes q the driver keeps: the code returned and the
\* codes kept after the call
GetError(q) ==
    IF q = <<>> THEN [code |-> NO_ERROR, q |-> q]
    ELSE [code |-> Head(q), q |-> Tail(q)]

\* the switch of CheckError; errorMsg stays "" when no case applies
ErrorMsg(errorCode) ==
    CASE errorCode = INVALID_ENUM -> "INVALID_ENUM"
      [] errorCode = INVALID_VALUE -> "INVALID_VALUE"
      [] errorCode = INVALID_OPERATION -> "INVALID_OPERATION"
      [] errorCode = STACK_OVERFLOW -> "STACK_OVERFLOW"
      [] errorCode = STACK_UNDERFLOW -> "STACK_UNDERFLOW"
      [] errorCode = OUT_OF_MEMORY -> "OUT_OF_MEMORY"
      [] errorCode = INVALID_FRAMEBUFFER_OPERATION -> "INVALID_FRAMEBUFFER_OPERATION"
      [] OTHER -> ""

\* make(GlError)
EmptyGlError == [c \in {} |-> ""]

\* err[errorCode] = errorMsg
PutError(err, errorCode, errorMsg) ==
    [c \in DOMAIN err \cup {errorCode} |-> IF c = errorCode THEN errorMsg ELSE err[c]]

\* what CheckError returns (nil, or the GlError err), the codes the driver
\* keeps afterwards, and the number of gl.GetError() calls made
NilError(q, calls) == [nil |-> TRUE, err |-> EmptyGlError, q |-> q, calls |-> calls]
SomeError(err, q, calls) == [nil |-> FALSE, err |-> err, q |-> q, calls |-> calls]

\* the for loop of CheckError, entered with errorCode just retrieved
RECURSIVE CheckErrorLoop(_, _, _, _)
CheckErrorLoop(err, errorCode, q, calls) ==
    IF errorCode = NO_ERROR THEN SomeError(err, q, calls)
    ELSE LET g == GetError(q)
         IN  CheckErrorLoop(PutError(err, errorCode, ErrorMsg(errorCode)),
                            g.code, g.q, calls + 1)

\* variant: CheckError reports the first code and retrieves no other
CheckErrorOnce(q) ==
    LET g == GetError(q)
    IN  IF g.code = NO_ERROR THEN NilError(g.q, 1)
        ELSE SomeError(PutError(EmptyGlError, g.code, ErrorMsg(g.code)), g.q, 1)

\* CheckError
CheckError(q) ==
    LET g == GetError(q)
    IN  IF g.code = NO_ERROR THEN NilError(g.q, 1)
        ELSE CheckErrorLoop(EmptyGlError, g.code, g.q, 1)

----------------------------------------------------------------------------
(* Buffer, NewVbo, NewEbo, enableAttribs, Allocate, Initalize, NewVao.  A   *)
(* *Buffer is the position of the Buffer in bufs.  Of a Buffer the model    *)
(* keeps Name, Attributes, target and bytesPerItem; ID, usage, count and    *)
(* size are left out, and with them Set, which writes count alone.  A Vao   *)
(* is kept with DrawMode, Vbo (a map from Name to *Buffer) and Ebo.  A      *)
(* call that panics ends there: what it wrote before stays written.        *)

SizeOfByte == 1
SizeOfFloat == 4 * SizeOfByte
SizeOfInt == 4 * SizeOfByte

Float32 == 5126
Int32 == 5124
Uint32 == 5125
Int8 == 5120
Uint8 == 5121

Triangles == 4

BytesIn(t) ==
    CASE t = Float32 -> SizeOfFloat
      [] t = Int32 -> SizeOfInt
      [] t = Uint32 -> SizeOfInt
      [] t = Int8 -> SizeOfByte
      [] t = Uint8 -> SizeOfByte
      [] OTHER -> 0

\* NewVbo: bytesPerItem has the zero value
NewVbo(name, attribs) ==
    [Name |-> name, Attributes |-> attribs, target |-> "ARRAY_BUFFER",
     bytesPerItem |-> 0]

NewEbo ==
    [Name |-> "EBO", Attributes |-> <<>>, target |-> "ELEMENT_ARRAY_BUFFER",
     bytesPerItem |-> 0]

\* Buffer.Allocate: an EBO is taken to hold uint32 indices; bytesPerItem of a
\* VBO is read (for size) and left as it is
Allocate(b) ==
    IF b.target = "ELEMENT_ARRAY_BUFFER" THEN [b EXCEPT !.bytesPerItem = SizeOfInt]
    ELSE b

\* Buffer.Initalize of a slice, the driver keeping the error codes q: the
\* Buffer and the codes afterwards.  For a VBO count is size / bytesPerItem,
\* an integer division that panics when bytesPerItem is 0, before CheckError
\* is reached
Initalize(b, q) ==
    IF b.target = "ARRAY_BUFFER" /\ b.bytesPerItem = 0
    THEN [panic |-> TRUE, b |-> b, q |-> q]
    ELSE [panic |-> FALSE,
          b |-> IF b.target = "ELEMENT_ARRAY_BUFFER"
                THEN [b EXCEPT !.bytesPerItem = SizeOfInt] ELSE b,
          q |-> CheckError(q).q]

\* the loop of Buffer.enableAttribs from attribute k on, the driver keeping the
\* error codes q: CheckError is called for each attribute
RECURSIVE EnableAttribsFrom(_, _, _)
EnableAttribsFrom(b, q, k) ==
    IF k > Len(b.Attributes) THEN [b |-> b, q |-> q]
    ELSE LET attrib == b.Attributes[k]
         IN  EnableAttribsFrom(
                 [b EXCEPT !.bytesPerItem = @ + attrib.Size * BytesIn(attrib.Type)],
                 CheckError(q).q, k + 1)

\* the loop of NewVao over vbos from position k on: v is the Vao, bs the Buffers
RECURSIVE NewVaoFrom(_, _, _, _, _)
NewVaoFrom(v, bs, q, vbos, k) ==
    IF k > Len(vbos) THEN [v |-> v, bs |-> bs, q |-> q]
    ELSE LET vbo == vbos[k]
             name == bs[vbo].Name
             e == EnableAttribsFrom(bs[vbo], q, 1)
         IN  NewVaoFrom(
                 [v EXCEPT !.Vbo = [n \in DOMAIN v.Vbo \cup {name} |->
                                       IF n = name THEN vbo ELSE v.Vbo[n]]],
                 [bs EXCEPT ![vbo] = e.b], e.q, vbos, k + 1)

\* NewVao: without a vbo it panics, no Buffer touched; else the Vao returned,
\* the Buffers afterwards (the new EBO is the last) and the error codes the
\* driver keeps
NewVao(bs, q, drawMode, vbos) ==
    LET v0 == [DrawMode |-> drawMode, Vbo |-> [n \in {} |-> 0], Ebo |-> 0]
        r == NewVaoFrom(v0, bs, q, vbos, 1)
    IN  IF Len(vbos) = 0 THEN [panic |-> TRUE, v |-> v0, bs |-> bs, q |-> q]
        ELSE [panic |-> FALSE,
              v |-> [r.v EXCEPT !.Ebo = Len(r.bs) + 1],
              bs |-> Append(r.bs, NewEbo),
              q |-> r.q]

----------------------------------------------------------------------------
(* Cycler and Selecter: Current is the 0-based index into Things *)

\* variant: Next does not wrap around at the end
NextNoWrap(c) == [c EXCEPT !.Current = c.Current + 1]

\* Cycler.Next
CyclerNext(c) ==
    LET cur == c.Current + 1
    IN  [c EXCEPT !.Current = IF cur = Len(c.Things) THEN 0 ELSE cur]

\* Cycler.Previous
CyclerPrevious(c) ==
    LET cur == c.Current - 1
    IN  [c EXCEPT !.Current = IF cur = -1 THEN Len(c.Things) - 1 ELSE cur]

\* Selecter.Next
SelecterNext(s) ==
    LET cur == s.Current + 1
    IN  [s EXCEPT !.Current = IF cur = Len(s.Things) THEN 0 ELSE cur]

\* Selecter.Previous
SelecterPrevious(s) ==
    LET cur == s.Current - 1
    IN  [s EXCEPT !.Current = IF cur = -1 THEN Len(s.Things) - 1 ELSE cur]

\* variant: Set clamps at 0 only
SelecterSetNoUpperClamp(s, index) ==
    [s EXCEPT !.Current = IF index < 0 THEN 0 ELSE index]

\* Selecter.Set
SelecterSet(s, index) ==
    LET i1 == IF index >= Len(s.Things) THEN Len(s.Things) - 1 ELSE index
        i2 == IF i1 < 0 THEN 0 ELSE i1
    IN  [s EXCEPT !.Current = i2]

\* NewSelecter: Things and Names are filled from the items, Current is 0
NewSelecter(its) ==
    [Title |-> "", Current |-> 0,
     Things |-> [i \in DOMAIN its |-> its[i].Item],
     Names |-> [i \in DOMAIN its |-> its[i].Name]]

\* variant: the search of SetName keeps going and the last match wins
RECURSIVE SetNameLastFrom(_, _, _)
SetNameLastFrom(s, name, i) ==
    IF i >= Len(s.Names) THEN s
    ELSE LET r == SetNameLastFrom(s, name, i + 1)
         IN  IF s.Names[i + 1] = name /\ r = s THEN SelecterSet(s, i) ELSE r

SelecterSetNameLast(s, name) == SetNameLastFrom(s, name, 0)

\* the loop of Selecter.SetName from index i (0-based) on
RECURSIVE SetNameFrom(_, _, _)
SetNameFrom(s, name, i) ==
    IF i >= Len(s.Names) THEN s
    ELSE IF s.Names[i + 1] = name THEN SelecterSet(s, i)
    ELSE SetNameFrom(s, name, i + 1)

\* Selecter.SetName
SelecterSetName(s, name) == SetNameFrom(s, name, 0)

----------------------------------------------------------------------------
(* The chords a program is built with *)

\* the identity of the callback of chord i of set s
FnOf(s, i) == 10 * s + i

Fns == UNION { { FnOf(s, i) : i \in DOMAIN Layout[s] } : s \in DOMAIN Layout }

MkChord(fn, keys, wait, stop) ==
    [Execute |-> fn, Keys |-> keys, Wait |-> wait, Stop |-> stop,
     lastPressed |-> ZeroTime]

WaitChoices ==
    { w \in [Fns -> {0, MaxWait}] :
        \A s \in DOMAIN Layout : \A i \in DOMAIN Layout[s] :
            (w[FnOf(s, i)] # 0) \in Layout[s][i].Waits }

StopChoices ==
    { st \in [Fns -> BOOLEAN] :
        \A s \in DOMAIN Layout : \A i \in DOMAIN Layout[s] :
            st[FnOf(s, i)] \in Layout[s][i].Stops }

ChordConfigs ==
    { [s \in DOMAIN Layout |->
          [i \in DOMAIN Layout[s] |->
              MkChord(FnOf(s, i), Layout[s][i].Keys, w[FnOf(s, i)], st[FnOf(s, i)])]] :
        w \in WaitChoices, st \in StopChoices }

\* the chord whose callback is fn, and the set that holds it
SetOf(fn) == CHOOSE s \in 1..Len(sets) : \E i \in 1..Len(sets[s]) : sets[s][i].Execute = fn
ChordOf(fn) ==
    LET s == SetOf(fn)
    IN  sets[s][CHOOSE i \in 1..Len(sets[s]) : sets[s][i].Execute = fn]

Tested(tr, fn) == \E k \in 1..Len(tr) : tr[k].kind = "match" /\ tr[k].fn = fn
Succeeded(tr, fn) == \E k \in 1..Len(tr) : tr[k].kind = "match" /\ tr[k].fn = fn /\ tr[k].ok

\* an event of a call, with the time of the chord's previous successful match
\* and whether the chord had no Match call since then
Annotate(e) ==
    [kind |-> e.kind, fn |-> e.fn, idx |-> e.idx, ok |-> e.ok,
     prev |-> lastMatch[e.fn], idle |-> e.fn \in idle]

\* bookkeeping of a call that left the trace tr
Observe(tr) ==
    /\ trace' = [k \in DOMAIN tr |-> Annotate(tr[k])]
    /\ lastMatch' = [fn \in DOMAIN lastMatch |->
                        IF Succeeded(tr, fn) THEN now ELSE lastMatch[fn]]
    /\ idle' = { fn \in DOMAIN lastMatch :
                    \/ Succeeded(tr, fn)
                    \/ fn \in idle /\ ~Tested(tr, fn) }

NoCall == /\ trace' = <<>>
          /\ UNCHANGED <<lastMatch, idle>>

----------------------------------------------------------------------------
(* The chord program: frames pass, keys change, handlers are called *)

\* a Timer as declared (var t Timer): every field zero
ZeroTimer == [TotalFrames |-> 0, TotalTime |-> Seconds(0), DeltaT |-> Seconds(0),
              Start |-> ZeroTime, Now |-> ZeroTime]

\* nothing was done with the Timer: it was not reset, not updated before its
\* last Reset, not updated since, and no clock reading was taken
NoFrames == [reset |-> FALSE, prior |-> FALSE, updates |-> 0, at |-> 0, last |-> 0]

TimerUnused == timer = ZeroTimer /\ frames = NoFrames

\* no NamedItems, no Timer in use, no driver error, no Buffer
OthersUnused ==
    /\ items = <<>>
    /\ TimerUnused
    /\ glq = <<>>
    /\ bufs = <<>>

Init ==
    /\ now = 0
    /\ pressed = {}
    /\ sets \in ChordConfigs
    /\ op = [name |-> "init", set |-> 0, idx |-> 0, arg |-> 0]
    /\ ret = 0
    /\ trace = <<>>
    /\ lastMatch = [fn \in Fns |-> Never]
    /\ idle = {}
    /\ cyc = [Current |-> 0, Things |-> <<>>]
    /\ sel = NewSelecter(<<>>)
    /\ OthersUnused

Tick ==
    /\ now < MaxTime
    /\ now' = now + 1
    /\ op' = [name |-> "Tick", set |-> 0, idx |-> 0, arg |-> 0]
    /\ ret' = 0
    /\ NoCall
    /\ UNCHANGED <<pressed, sets, cyc, sel, items, timer, frames, glq, bufs>>

PollEvents ==
    /\ \E win \in SUBSET KeySet :
          /\ win # pressed
          /\ pressed' = win
    /\ op' = [name |-> "PollEvents", set |-> 0, idx |-> 0, arg |-> 0]
    /\ ret' = 0
    /\ NoCall
    /\ UNCHANGED <<now, sets, cyc, sel, items, timer, frames, glq, bufs>>

DoChordMatch ==
    \E s \in 1..Len(sets) : \E i \in 1..Len(sets[s]) :
        LET m == Match(sets[s][i], pressed, now)
        IN  /\ sets' = [sets EXCEPT ![s][i] = m.c]
            /\ op' = [name |-> "Chord.Match", set |-> s, idx |-> i, arg |-> 0]
            /\ ret' = m.ok
            /\ Observe(<<MatchEvent(sets[s][i], i, m.ok)>>)
            /\ UNCHANGED <<now, pressed, cyc, sel, items, timer, frames, glq, bufs>>

DoChordSetMatch ==
    \E s \in 1..Len(sets) :
        LET m == ChordSetMatch(sets[s], pressed, now)
        IN  /\ sets' = [sets EXCEPT ![s] = m.cs]
            /\ op' = [name |-> "ChordSet.Match", set |-> s, idx |-> 0, arg |-> 0]
            /\ ret' = m.ret
            /\ Observe(m.trace)
            /\ UNCHANGED <<now, pressed, cyc, sel, items, timer, frames, glq, bufs>>

DoChordSetExecute ==
    \E s \in 1..Len(sets) :
        LET e == ChordSetExecute(sets[s], pressed, now)
        IN  /\ sets' = [sets EXCEPT ![s] = e.cs]
            /\ op' = [name |-> "ChordSet.Execute", set |-> s, idx |-> 0, arg |-> 0]
            /\ ret' = 0
            /\ Observe(e.trace)
            /\ UNCHANGED <<now, pressed, cyc, sel, items, timer, frames, glq, bufs>>

DoExecuteSets ==
    LET e == ExecuteSets(sets, pressed, now)
    IN  /\ sets' = e.sets
        /\ op' = [name |-> "ExecuteSets", set |-> 0, idx |-> 0, arg |-> 0]
        /\ ret' = 0
        /\ Observe(e.trace)
        /\ UNCHANGED <<now, pressed, cyc, sel, items, timer, frames, glq, bufs>>

DoCombineSets ==
    /\ sets' = CombineSets(sets)
    /\ op' = [name |-> "CombineSets", set |-> 0, idx |-> 0, arg |-> sets]
    /\ ret' = 0
    /\ NoCall
    /\ UNCHANGED <<now, pressed, cyc, sel, items, timer, frames, glq, bufs>>

Next ==
    \/ Tick
    \/ PollEvents
    \/ DoChordMatch
    \/ DoChordSetMatch
    \/ DoChordSetExecute
    \/ DoExecuteSets
    \/ DoCombineSets

Spec == Init /\ [][Next]_vars

----------------------------------------------------------------------------
(* Sorting: chord sets with any key lists, sorted by ChordSet.Sort or by       *)
(* CombineSets                                                              *)

\* the sequences over S of length at most n
SeqsUpTo(S, n) == UNION { [1..k -> S] : k \in 0..n }

\* a chord lists no more keys than there are
KeyLists == SeqsUpTo(KeySet, Cardinality(KeySet))

SortChord(fn, keys) == MkChord(fn, keys, 0, FALSE)

\* one or two chord sets of MaxSortChords chords in all
SortConfigs ==
    { [s \in DOMAIN ks |-> [i \in DOMAIN ks[s] |-> SortChord(FnOf(s, i), ks[s][i])]] :
        ks \in { <<a>> : a \in SeqsUpTo(KeyLists, MaxSortChords) } \cup
               UNION { { <<a, b>> : a \in [1..la -> KeyLists],
                                    b \in SeqsUpTo(KeyLists, MaxSortChords - la) } :
                       la \in 0..MaxSortChords } }

SortInit ==
    /\ now = 0
    /\ pressed = {}
    /\ sets \in SortConfigs
    /\ op = [name |-> "init", set |-> 0, idx |-> 0, arg |-> 0]
    /\ ret = 0
    /\ trace = <<>>
    /\ lastMatch = [fn \in Fns |-> Never]
    /\ idle = {}
    /\ cyc = [Current |-> 0, Things |-> <<>>]
    /\ sel = NewSelecter(<<>>)
    /\ OthersUnused

DoChordSetSort ==
    \E s \in 1..Len(sets) :
        /\ sets' = [sets EXCEPT ![s] = ChordSetSort(sets[s])]
        /\ op' = [name |-> "ChordSet.Sort", set |-> s, idx |-> 0, arg |-> sets]
        /\ ret' = 0
        /\ NoCall
        /\ UNCHANGED <<now, pressed, cyc, sel, items, timer, frames, glq, bufs>>

SortNext ==
    \/ DoChordSetSort
    \/ DoCombineSets

SpecSort == SortInit /\ [][SortNext]_vars

----------------------------------------------------------------------------
(* A Cycler and a Selecter under Next, Previous and Set *)

Items(n) == [i \in 1..n |-> i]

\* the names items are given, and one more that a caller may ask for
NameSet == {"a", "b"}
AskedNames == NameSet \cup {"c"}

\* MakeItems with names: item i carries names[i]
NamedItemsOf(names) == [i \in DOMAIN names |-> [Name |-> names[i], Item |-> i]]

SelInit ==
    /\ now = 0
    /\ pressed = {}
    /\ sets = <<>>
    /\ op = [name |-> "init", set |-> 0, idx |-> 0, arg |-> 0]
    /\ ret = 0
    /\ trace = <<>>
    /\ lastMatch = <<>>
    /\ idle = {}
    /\ \E n \in 0..MaxItems : cyc = [Current |-> 0, Things |-> Items(n)]
    /\ \E n \in 0..MaxItems : \E names \in [1..n -> NameSet] :
            sel = NewSelecter(NamedItemsOf(names))
    /\ OthersUnused

\* Current of a Cycler or Selecter without items runs away from 0: the model
\* follows it as far as MaxIndex
DoCyclerNext ==
    /\ cyc.Current < MaxIndex
    /\ cyc' = CyclerNext(cyc)
    /\ op' = [name |-> "Cycler.Next", set |-> 0, idx |-> 0, arg |-> cyc.Current]
    /\ UNCHANGED <<now, pressed, sets, ret, trace, lastMatch, idle, sel, items, timer, frames, glq, bufs>>

DoCyclerPrevious ==
    /\ cyc.Current > 0 - MaxIndex
    /\ cyc' = CyclerPrevious(cyc)
    /\ op' = [name |-> "Cycler.Previous", set |-> 0, idx |-> 0, arg |-> cyc.Current]
    /\ UNCHANGED <<now, pressed, sets, ret, trace, lastMatch, idle, sel, items, timer, frames, glq, bufs>>

DoSelecterNext ==
    /\ sel.Current < MaxIndex
    /\ sel' = SelecterNext(sel)
    /\ op' = [name |-> "Selecter.Next", set |-> 0, idx |-> 0, arg |-> sel.Current]
    /\ UNCHANGED <<now, pressed, sets, ret, trace, lastMatch, idle, cyc, items, timer, frames, glq, bufs>>

DoSelecterPrevious ==
    /\ sel.Current > 0 - MaxIndex
    /\ sel' = SelecterPrevious(sel)
    /\ op' = [name |-> "Selecter.Previous", set |-> 0, idx |-> 0, arg |-> sel.Current]
    /\ UNCHANGED <<now, pressed, sets, ret, trace, lastMatch, idle, cyc, items, timer, frames, glq, bufs>>

DoSelecterSet ==
    \E index \in (0 - MaxIndex)..MaxIndex :
        /\ sel' = SelecterSet(sel, index)
        /\ op' = [name |-> "Selecter.Set", set |-> 0, idx |-> index, arg |-> sel.Current]
        /\ UNCHANGED <<now, pressed, sets, ret, trace, lastMatch, idle, cyc, items, timer, frames, glq, bufs>>

DoSelecterSetName ==
    \E name \in AskedNames :
        /\ sel' = SelecterSetName(sel, name)
        /\ op' = [name |-> "Selecter.SetName", set |-> 0, idx |-> 0,
                  arg |-> [sel |-> sel, name |-> name]]
        /\ UNCHANGED <<now, pressed, sets, ret, trace, lastMatch, idle, cyc, items, timer, frames, glq, bufs>>

SelNext ==
    \/ DoSelecterSetName
    \/ DoCyclerNext
    \/ DoCyclerPrevious
    \/ DoSelecterNext
    \/ DoSelecterPrevious
    \/ DoSelecterSet

SpecSel == SelInit /\ [][SelNext]_vars

----------------------------------------------------------------------------
(* What the claims speak of *)

IsMatch(e) == e.kind = "match"
IsExec(e) == e.kind = "exec"

MatchesOf(tr) == SelectSeq(tr, IsMatch)
ExecsOf(tr) == SelectSeq(tr, IsExec)
FnsIn(tr) == [k \in DOMAIN tr |-> tr[k].fn]

IsOk(e) == e.ok

\* the events of tr on chords of the set cs
InSet(cs, tr) ==
    LET member(e) == \E i \in DOMAIN cs : cs[i].Execute = e.fn
    IN  SelectSeq(tr, member)

KeySetOf(c) == { c.Keys[i] : i \in DOMAIN c.Keys }

\* tr is one walk of ChordSet.Execute over cs: the chords are tested in slice
\* order from the first, the callbacks run are those of the chords that
\* matched, in that order, nothing runs after the callback of a Stop chord, and
\* without an executed Stop chord every chord of the set is tested
WalkOf(cs, tr) ==
    LET M == MatchesOf(tr)
        X == ExecsOf(tr)
        stopped == \E p \in DOMAIN tr : IsExec(tr[p]) /\ cs[tr[p].idx].Stop
    IN  /\ Len(M) <= Len(cs)
        /\ \A k \in DOMAIN M : M[k].idx = k /\ M[k].fn = cs[k].Execute
        /\ FnsIn(X) = FnsIn(SelectSeq(M, IsOk))
        /\ \A p \in DOMAIN tr : \A q \in DOMAIN tr :
              (p < q /\ IsExec(tr[p]) /\ cs[tr[p].idx].Stop) => ~IsExec(tr[q])
        /\ ~stopped => Len(M) = Len(cs)

\* C1: ChordSet.Execute walks the set in slice order and runs the callback of
\* each chord that matches, until all matching chords have been executed or a
\* chord with Stop has been executed; no chord after an executed Stop chord is
\* executed in that call.
C1_ExecuteUntilStop ==
    op.name = "ChordSet.Execute" => WalkOf(sets[op.set], trace)

\* a call of ChordSet.Execute ran the callback of a Stop chord and left out the
\* chord after it, whose keys are pressed and whose wait has elapsed
C1_Witness ==
    /\ op.name = "ChordSet.Execute"
    /\ \E p \in DOMAIN trace :
          LET cs == sets[op.set]
              i == trace[p].idx
          IN  /\ IsExec(trace[p])
              /\ cs[i].Stop
              /\ i < Len(cs)
              /\ KeySetOf(cs[i + 1]) \subseteq pressed
              /\ now - cs[i + 1].lastPressed >= cs[i + 1].Wait

\* C2: two calls of Chord.Match on a chord that both return true are at least
\* Wait seconds apart, whatever happens in between.
C2_MatchesWaitApart ==
    \A k \in DOMAIN trace :
        LET e == trace[k]
        IN  (IsMatch(e) /\ e.ok /\ e.prev # Never) => now - e.prev >= ChordOf(e.fn).Wait

\* a waiting chord matched for the second time
C2_Witness ==
    \E k \in DOMAIN trace :
        LET e == trace[k]
        IN  IsMatch(e) /\ e.ok /\ e.prev # Never /\ ChordOf(e.fn).Wait > 0

\* C3: Chord.Match returns true exactly when at least Wait seconds have passed
\* since the chord's last successful match and every key of Keys is pressed.
C3_MatchExactly ==
    \A k \in DOMAIN trace :
        LET e == trace[k]
            c == ChordOf(e.fn)
        IN  IsMatch(e) =>
               (e.ok <=> /\ (e.prev = Never \/ now - e.prev >= c.Wait)
                         /\ KeySetOf(c) \subseteq pressed)

\* Chord.Match returned false on a chord of two keys of which one is pressed,
\* the wait not being in the way
C3_Witness ==
    /\ op.name = "Chord.Match"
    /\ ret = FALSE
    /\ LET c == sets[op.set][op.idx]
       IN  /\ Len(c.Keys) = 2
           /\ KeySetOf(c) \cap pressed # {}
           /\ trace[1].prev = Never

\* C4: the wait runs down with elapsed time also while Match is not called on
\* the chord: a Match call with all keys pressed, Wait seconds or more after the
\* last successful match and with no call in between, returns true.
C4_WaitRunsDownUncalled ==
    \A k \in DOMAIN trace :
        LET e == trace[k]
            c == ChordOf(e.fn)
        IN  (IsMatch(e) /\ e.idle /\ now - e.prev >= c.Wait
                /\ KeySetOf(c) \subseteq pressed) => e.ok

\* the second chord of a set, not called since it matched exactly Wait seconds
\* ago, is now the chord ChordSet.Match returns
C4_Witness ==
    /\ op.name = "ChordSet.Match"
    /\ ret = 2
    /\ trace[2].idle
    /\ ChordOf(trace[2].fn).Wait > 0
    /\ now - trace[2].prev = ChordOf(trace[2].fn).Wait

\* C5: ChordSet.Match returns the first chord in slice order whose Chord.Match
\* succeeds, and nil when no chord of the set matches.
C5_FirstMatching ==
    op.name = "ChordSet.Match" =>
        LET cs == sets[op.set]
            tested == IF ret = 0 THEN Len(cs) ELSE ret
        IN  /\ ret \in 0..Len(cs)
            /\ Len(trace) = tested
            /\ \A k \in 1..tested :
                  /\ IsMatch(trace[k])
                  /\ trace[k].fn = cs[k].Execute
                  /\ trace[k].ok = (k = ret)
            /\ \A k \in 1..tested :
                  k # ret => ~(/\ KeySetOf(cs[k]) \subseteq pressed
                               /\ now - cs[k].lastPressed >= cs[k].Wait)
            /\ ret # 0 => KeySetOf(cs[ret]) \subseteq pressed

\* ChordSet.Match returned the first chord while the second one has its keys
\* pressed and its wait elapsed as well
C5_Witness ==
    /\ op.name = "ChordSet.Match"
    /\ ret = 1
    /\ LET cs == sets[op.set]
       IN  /\ Len(cs) >= 2
           /\ KeySetOf(cs[2]) \subseteq pressed
           /\ now - cs[2].lastPressed >= cs[2].Wait

\* C6: ExecuteSets calls Execute on every set, in slice order; a Stop chord
\* executed in one set ends only that set's execution.
C6_EverySetExecuted ==
    op.name = "ExecuteSets" =>
        /\ \A s \in DOMAIN sets : WalkOf(sets[s], InSet(sets[s], trace))
        /\ \A p \in DOMAIN trace : \A q \in DOMAIN trace :
              p < q => SetOf(trace[p].fn) <= SetOf(trace[q].fn)

\* ExecuteSets ran the callback of a Stop chord of the first set, left out the
\* chord after it, and ran a callback of the second set
C6_Witness ==
    /\ op.name = "ExecuteSets"
    /\ \E p \in DOMAIN trace : \E q \in DOMAIN trace :
          /\ IsExec(trace[p]) /\ SetOf(trace[p].fn) = 1
          /\ ChordOf(trace[p].fn).Stop
          /\ trace[p].idx < Len(sets[1])
          /\ IsExec(trace[q]) /\ SetOf(trace[q].fn) = 2

\* C7: in ExecuteSets all the searching is done first and then all the
\* executions: no chord is tested for a match after a callback has run.
C7_SearchBeforeExecute ==
    op.name = "ExecuteSets" =>
        \A p \in DOMAIN trace : \A q \in DOMAIN trace :
            (p < q /\ IsExec(trace[p])) => ~IsMatch(trace[q])

\* each chord with more keys stands before every chord with fewer keys, and the
\* set holds the chords it held
SortedOf(before, cs) ==
    /\ \A i \in DOMAIN cs : \A j \in DOMAIN cs :
          Len(cs[i].Keys) > Len(cs[j].Keys) => i < j
    /\ Len(cs) = Len(before)
    /\ \A i \in DOMAIN before : \E j \in DOMAIN cs : cs[j] = before[i]

\* C8: after CombineSets (or ChordSet.Sort) every set is sorted so that each
\* chord with more keys comes before every chord with fewer keys.
C8_MoreKeysFirst ==
    /\ op.name = "CombineSets" =>
          \A s \in DOMAIN sets : SortedOf(op.arg[s], sets[s])
    /\ op.name = "ChordSet.Sort" => SortedOf(op.arg[op.set], sets[op.set])

\* CombineSets moved a chord of two keys from the end of a set to its front,
\* past two chords of one key each
C8_Witness ==
    /\ op.name = "CombineSets"
    /\ \E s \in DOMAIN sets :
          /\ Len(sets[s]) = 3
          /\ Len(op.arg[s][1].Keys) = 1
          /\ Len(op.arg[s][2].Keys) = 1
          /\ Len(op.arg[s][3].Keys) = 2
          /\ sets[s][1] = op.arg[s][3]

Wrapped(n, from, step) ==
    IF step = 1 THEN (IF from = n - 1 THEN 0 ELSE from + 1)
    ELSE (IF from = 0 THEN n - 1 ELSE from - 1)

\* C9: for a Cycler or a Selecter of n >= 1 items with Current in 0..n-1, Next
\* and Previous keep Current in 0..n-1: Next goes from n-1 to 0 and otherwise
\* adds one, Previous goes from 0 to n-1 and otherwise subtracts one.
C9_CurrentWraps ==
    LET nc == Len(cyc.Things)
        ns == Len(sel.Things)
    IN  /\ nc >= 1 => cyc.Current \in 0..(nc - 1)
        /\ ns >= 1 => sel.Current \in 0..(ns - 1)
        /\ (nc >= 1 /\ op.name = "Cycler.Next") => cyc.Current = Wrapped(nc, op.arg, 1)
        /\ (nc >= 1 /\ op.name = "Cycler.Previous") => cyc.Current = Wrapped(nc, op.arg, 0)
        /\ (ns >= 1 /\ op.name = "Selecter.Next") => sel.Current = Wrapped(ns, op.arg, 1)
        /\ (ns >= 1 /\ op.name = "Selecter.Previous") => sel.Current = Wrapped(ns, op.arg, 0)

\* Next took a Selecter of three items from its last item to its first
C9_Witness ==
    /\ op.name = "Selecter.Next"
    /\ Len(sel.Things) = 3
    /\ op.arg = 2
    /\ sel.Current = 0

Clamped(n, index) ==
    LET hi == IF index > n - 1 THEN n - 1 ELSE index
    IN  IF hi < 0 THEN 0 ELSE hi

\* C10 as stated: after Selecter.Set(index), for any index, Current is index
\* clamped to the bounds of Things and is a valid index of Things.
C10_SetValidIndex ==
    op.name = "Selecter.Set" =>
        /\ sel.Current = Clamped(Len(sel.Things), op.idx)
        /\ sel.Current + 1 \in DOMAIN sel.Things

\* C10 amended: after Selecter.Set(index), for any index, Current is
\* max(0, min(index, len(Things)-1)); it is a valid index of Things when Things
\* is not empty, and 0 when Things is empty.
C10_SetClamps ==
    op.name = "Selecter.Set" =>
        /\ sel.Current = Clamped(Len(sel.Things), op.idx)
        /\ Len(sel.Things) >= 1 => sel.Current + 1 \in DOMAIN sel.Things
        /\ Len(sel.Things) = 0 => sel.Current = 0

\* Set with an index past the end of three items selected the last one
C10_Witness ==
    /\ op.name = "Selecter.Set"
    /\ Len(sel.Things) = 3
    /\ op.idx > 2
    /\ sel.Current = 2

----------------------------------------------------------------------------
(* NamedItems under Sort *)

\* the bytes of the letters a and b
Letters == {97, 98}

\* the Name strings in use: "", "a", "b", "aa", "ab", "ba", "bb"
NameStrings == SeqsUpTo(Letters, Cardinality(Letters))

ItemsInit ==
    /\ now = 0
    /\ pressed = {}
    /\ sets = <<>>
    /\ op = [name |-> "init", set |-> 0, idx |-> 0, arg |-> 0]
    /\ ret = 0
    /\ trace = <<>>
    /\ lastMatch = <<>>
    /\ idle = {}
    /\ cyc = [Current |-> 0, Things |-> <<>>]
    /\ sel = NewSelecter(<<>>)
    /\ \E n \in 0..MaxItems : \E names \in [1..n -> NameStrings] :
            items = NamedItemsOf(names)
    /\ TimerUnused
    /\ glq = <<>>
    /\ bufs = <<>>

DoNamedItemsSort ==
    /\ items' = NamedItemsSort(items)
    /\ ret' = items'
    /\ op' = [name |-> "NamedItems.Sort", set |-> 0, idx |-> 0, arg |-> items]
    /\ UNCHANGED <<now, pressed, sets, trace, lastMatch, idle, cyc, sel, timer, frames, glq, bufs>>

ItemsNext == DoNamedItemsSort

SpecItems == ItemsInit /\ [][ItemsNext]_vars

----------------------------------------------------------------------------
(* A Timer in a render loop: time passes, the Timer is reset, updated and   *)
(* asked for its average frame rate                                         *)

TimerInit ==
    /\ now = 0
    /\ pressed = {}
    /\ sets = <<>>
    /\ op = [name |-> "init", set |-> 0, idx |-> 0, arg |-> 0]
    /\ ret = [num |-> 0, den |-> Seconds(0)]
    /\ trace = <<>>
    /\ lastMatch = <<>>
    /\ idle = {}
    /\ cyc = [Current |-> 0, Things |-> <<>>]
    /\ sel = NewSelecter(<<>>)
    /\ items = <<>>
    /\ TimerUnused
    /\ glq = <<>>
    /\ bufs = <<>>

\* a second passes
TimerTick ==
    /\ now < MaxTime
    /\ now' = now + 1
    /\ op' = [name |-> "Tick", set |-> 0, idx |-> 0, arg |-> 0]
    /\ UNCHANGED <<pressed, sets, ret, trace, lastMatch, idle, cyc, sel, items, timer, frames, glq, bufs>>

DoTimerReset ==
    /\ timer' = TimerReset(timer, now)
    /\ frames' = [reset |-> TRUE,
                  prior |-> frames.prior \/ frames.updates > 0,
                  updates |-> 0, at |-> now, last |-> now]
    /\ op' = [name |-> "Timer.Reset", set |-> 0, idx |-> 0, arg |-> timer]
    /\ UNCHANGED <<now, pressed, sets, ret, trace, lastMatch, idle, cyc, sel, items, glq, bufs>>

\* Update, on a Timer that was reset or not; the model follows TotalFrames as
\* far as MaxFrames
DoTimerUpdate ==
    /\ timer.TotalFrames < MaxFrames
    /\ timer' = TimerUpdate(timer, now)
    /\ frames' = [frames EXCEPT !.updates = @ + 1, !.last = now]
    /\ op' = [name |-> "Timer.Update", set |-> 0, idx |-> 0, arg |-> timer]
    /\ UNCHANGED <<now, pressed, sets, ret, trace, lastMatch, idle, cyc, sel, items, glq, bufs>>

DoTimerAvgFps ==
    /\ ret' = TimerAvgFps(timer)
    /\ op' = [name |-> "Timer.AvgFps", set |-> 0, idx |-> 0, arg |-> timer]
    /\ UNCHANGED <<now, pressed, sets, trace, lastMatch, idle, cyc, sel, items, timer, frames, glq, bufs>>

TimerNext ==
    \/ TimerTick
    \/ DoTimerReset
    \/ DoTimerUpdate
    \/ DoTimerAvgFps

SpecTimer == TimerInit /\ [][TimerNext]_vars

----------------------------------------------------------------------------
(* The driver records errors of GL calls; the program calls CheckError *)

\* the codes the driver records in the model
ErrorCodes == {INVALID_ENUM, INVALID_VALUE, CONTEXT_LOST}

ErrInit ==
    /\ now = 0
    /\ pressed = {}
    /\ sets = <<>>
    /\ op = [name |-> "init", set |-> 0, idx |-> 0, arg |-> <<>>]
    /\ ret = [nil |-> TRUE, err |-> EmptyGlError]
    /\ trace = <<>>
    /\ lastMatch = <<>>
    /\ idle = {}
    /\ cyc = [Current |-> 0, Things |-> <<>>]
    /\ sel = NewSelecter(<<>>)
    /\ items = <<>>
    /\ TimerUnused
    /\ glq = <<>>
    /\ bufs = <<>>

\* a GL call fails: the driver records its code
GlRaise ==
    \E code \in ErrorCodes :
        /\ Len(glq) < MaxErrors
        /\ glq' = Append(glq, code)
        /\ op' = [name |-> "gl", set |-> 0, idx |-> 0, arg |-> glq]
        /\ UNCHANGED <<now, pressed, sets, ret, trace, lastMatch, idle, cyc, sel, items, timer, frames, bufs>>

DoCheckError ==
    LET r == CheckError(glq)
    IN  /\ glq' = r.q
        /\ ret' = [nil |-> r.nil, err |-> r.err]
        /\ op' = [name |-> "CheckError", set |-> 0, idx |-> r.calls, arg |-> glq]
        /\ UNCHANGED <<now, pressed, sets, trace, lastMatch, idle, cyc, sel, items, timer, frames, bufs>>

ErrNext ==
    \/ GlRaise
    \/ DoCheckError

SpecErr == ErrInit /\ [][ErrNext]_vars

----------------------------------------------------------------------------
(* A program makes VBOs and builds Vaos from them.  ret holds the Vaos that *)
(* NewVao returned so far.                                                  *)

Attr(size, type) == [Size |-> size, Type |-> type]

\* the attribute lists VBOs are made with
AttribLists ==
    { <<>>,
      <<Attr(3, Float32)>>,
      <<Attr(4, Uint8), Attr(1, Int32)>> }

\* a program makes no more VBOs than it has names for them
MaxVbos == Cardinality(NameSet)

\* the VBOs among the Buffers
VbosOf(bs) == { id \in DOMAIN bs : bs[id].target = "ARRAY_BUFFER" }

\* a program holds no more Buffers than MaxVbos VBOs and an EBO for each Vao
MaxBufs == MaxVbos + MaxVaos

\* what op keeps of a call: the vbos given to NewVao and the Buffers before
\* it, the Buffer another call was made on, and whether the call panicked
VaoCall(name, vbos, buf, panic) ==
    [name |-> name, set |-> 0, idx |-> buf,
     arg |-> [vbos |-> vbos,
              before |-> IF name = "NewVao" THEN bufs ELSE <<>>,
              panic |-> panic]]

VaoInit ==
    /\ now = 0
    /\ pressed = {}
    /\ sets = <<>>
    /\ op = [name |-> "init", set |-> 0, idx |-> 0,
             arg |-> [vbos |-> <<>>, before |-> <<>>, panic |-> FALSE]]
    /\ ret = <<>>
    /\ trace = <<>>
    /\ lastMatch = <<>>
    /\ idle = {}
    /\ cyc = [Current |-> 0, Things |-> <<>>]
    /\ sel = NewSelecter(<<>>)
    /\ items = <<>>
    /\ TimerUnused
    /\ glq = <<>>
    /\ bufs = <<>>

\* the code the driver records when a GL call on a Buffer or Vao is made out
\* of turn
BufferErrorCodes == {INVALID_OPERATION}

\* a GL call fails: the driver records its code
VaoGlRaise ==
    \E code \in BufferErrorCodes :
        /\ Len(glq) < MaxErrors
        /\ glq' = Append(glq, code)
        /\ op' = VaoCall("gl", <<>>, 0, FALSE)
        /\ UNCHANGED <<now, pressed, sets, ret, trace, lastMatch, idle, cyc, sel, items, timer, frames, bufs>>

DoNewVbo ==
    \E name \in NameSet : \E attribs \in AttribLists :
        /\ Cardinality(VbosOf(bufs)) < MaxVbos
        /\ Len(bufs) < MaxBufs
        /\ bufs' = Append(bufs, NewVbo(name, attribs))
        /\ op' = VaoCall("NewVbo", <<>>, Len(bufs) + 1, FALSE)
        /\ UNCHANGED <<now, pressed, sets, ret, trace, lastMatch, idle, cyc, sel, items, timer, frames, glq>>

\* NewEbo called by the program
DoNewEbo ==
    /\ Len(bufs) < MaxBufs
    /\ bufs' = Append(bufs, NewEbo)
    /\ op' = VaoCall("NewEbo", <<>>, Len(bufs) + 1, FALSE)
    /\ UNCHANGED <<now, pressed, sets, ret, trace, lastMatch, idle, cyc, sel, items, timer, frames, glq>>

DoAllocate ==
    \E id \in DOMAIN bufs :
        /\ bufs' = [bufs EXCEPT ![id] = Allocate(bufs[id])]
        /\ op' = VaoCall("Buffer.Allocate", <<>>, id, FALSE)
        /\ UNCHANGED <<now, pressed, sets, ret, trace, lastMatch, idle, cyc, sel, items, timer, frames, glq>>

DoInitalize ==
    \E id \in DOMAIN bufs :
        LET r == Initalize(bufs[id], glq)
        IN  /\ bufs' = [bufs EXCEPT ![id] = r.b]
            /\ glq' = r.q
            /\ op' = VaoCall("Buffer.Initalize", <<>>, id, r.panic)
            /\ UNCHANGED <<now, pressed, sets, ret, trace, lastMatch, idle, cyc, sel, items, timer, frames>>

\* NewVao with none to MaxVbos of the program's VBOs, the same one more than
\* once or not; a call that panics returns no Vao
DoNewVao ==
    \E n \in 0..MaxVbos : \E vbos \in [1..n -> VbosOf(bufs)] :
        LET r == NewVao(bufs, glq, Triangles, vbos)
        IN  /\ Len(ret) < MaxVaos
            /\ Len(bufs) < MaxBufs
            /\ bufs' = r.bs
            /\ glq' = r.q
            /\ ret' = IF r.panic THEN ret ELSE Append(ret, r.v)
            /\ op' = VaoCall("NewVao", vbos, 0, r.panic)
            /\ UNCHANGED <<now, pressed, sets, trace, lastMatch, idle, cyc, sel, items, timer, frames>>

VaoNext ==
    \/ VaoGlRaise
    \/ DoNewVbo
    \/ DoNewEbo
    \/ DoAllocate
    \/ DoInitalize
    \/ DoNewVao

SpecVao == VaoInit /\ [][VaoNext]_vars

----------------------------------------------------------------------------
\* the indexes (0-based) at which Names holds name
HitsOf(s, name) == { i \in 0..(Len(s.Names) - 1) : s.Names[i + 1] = name }

Least(S) == CHOOSE i \in S : \A j \in S : i <= j

\* C11: Selecter.SetName(name) makes the first index whose name equals name
\* the current selection and leaves every other field alone; when no name of
\* Names equals name the Selecter is unchanged.
C11_SetNameFirstOrNothing ==
    op.name = "Selecter.SetName" =>
        LET s == op.arg.sel
            hits == HitsOf(s, op.arg.name)
        IN  IF hits = {} THEN sel = s
            ELSE sel = [s EXCEPT !.Current = Least(hits)]

\* SetName("b") on names a, b, b with the third selected: the second becomes
\* the selection
C11_Witness ==
    /\ op.name = "Selecter.SetName"
    /\ op.arg.name = "b"
    /\ op.arg.sel.Names = <<"a", "b", "b">>
    /\ op.arg.sel.Current = 2
    /\ sel.Current = 1

\* its holds the items of before, each as often
SameItems(before, its) ==
    /\ Len(its) = Len(before)
    /\ \A x \in { before[i] : i \in DOMAIN before } :
          Cardinality({ i \in DOMAIN its : its[i] = x }) =
          Cardinality({ i \in DOMAIN before : before[i] = x })

\* C12: NamedItems.Sort leaves the items sorted by Name in descending order
\* (no item is followed by one of a greater Name) and returns the same items.
C12_SortDescending ==
    op.name = "NamedItems.Sort" =>
        /\ ret = items
        /\ SameItems(op.arg, items)
        /\ \A i \in DOMAIN items : \A j \in DOMAIN items :
              i < j => ~StringLess(items[i].Name, items[j].Name)

\* what NamedItems.Sort does: the same items, returned in ascending order of
\* Name
C12_SortAscending ==
    op.name = "NamedItems.Sort" =>
        /\ ret = items
        /\ SameItems(op.arg, items)
        /\ \A i \in DOMAIN items : \A j \in DOMAIN items :
              i < j => ~StringLess(items[j].Name, items[i].Name)

\* two float64 quotients are the same value: both 0/0 (NaN), both n/0 with
\* n > 0 (+Inf), or equal fractions.  No whole multiple of
\* 9223372036.854775807 that occurs is a whole number, so that the products
\* are compared part by part
SameQuotient(p, q) ==
    IF p.den = Seconds(0) \/ q.den = Seconds(0)
    THEN p.den = q.den /\ ((p.num = 0) <=> (q.num = 0))
    ELSE /\ p.num * q.den.sat = q.num * p.den.sat
         /\ p.num * q.den.sec = q.num * p.den.sec

\* the Update calls since the last Reset over the time from that Reset to the
\* last of them
SinceReset == [num |-> frames.updates, den |-> Seconds(frames.last - frames.at)]

\* C13: once the Timer was reset, AvgFps is the number of Update calls since
\* the last Reset divided by the time elapsed since that Reset, whether or
\* not the Timer was updated before that Reset.
C13_AvgFpsSinceReset ==
    (op.name = "Timer.AvgFps" /\ frames.reset) => SameQuotient(ret, SinceReset)

\* the same of a Timer that was not updated before its last Reset
C13_AvgFpsOfFreshTimer ==
    (op.name = "Timer.AvgFps" /\ frames.reset /\ ~frames.prior) =>
        SameQuotient(ret, SinceReset)

\* the codes a sequence of codes holds
CodesOf(q) == { q[i] : i \in DOMAIN q }

\* C14: CheckError returns nil exactly when the driver keeps no error; when
\* it keeps some, CheckError calls gl.GetError() until that reports NO_ERROR
\* (once per code kept and once more), returns a GlError whose keys are the
\* distinct codes retrieved, and leaves the driver without any error.
C14_CheckErrorDrains ==
    op.name = "CheckError" =>
        /\ ret.nil <=> op.arg = <<>>
        /\ op.arg # <<>> => DOMAIN ret.err = CodesOf(op.arg)
        /\ op.idx = Len(op.arg) + 1
        /\ glq = <<>>

\* the driver kept INVALID_ENUM, INVALID_VALUE and INVALID_ENUM again: the
\* GlError returned has the two codes
C14_Witness ==
    /\ op.name = "CheckError"
    /\ op.arg = <<INVALID_ENUM, INVALID_VALUE, INVALID_ENUM>>
    /\ ~ret.nil
    /\ DOMAIN ret.err = {INVALID_ENUM, INVALID_VALUE}
    /\ glq = <<>>

\* the bytes of one vertex: the sum over the attributes from k on of
\* Size * BytesIn(Type)
RECURSIVE VertexBytesFrom(_, _)
VertexBytesFrom(attribs, k) ==
    IF k > Len(attribs) THEN 0
    ELSE attribs[k].Size * BytesIn(attribs[k].Type) + VertexBytesFrom(attribs, k + 1)

VertexBytes(b) == VertexBytesFrom(b.Attributes, 1)

\* C15: after NewVao the bytesPerItem of each VBO it was given is the sum over
\* the VBO's Attributes of Size * BytesIn(Type), whether the VBO was given to
\* NewVao once or more than once, in one call or in several.
C15_BytesPerItemIsVertexBytes ==
    op.name = "NewVao" =>
        \A k \in DOMAIN op.arg.vbos :
            bufs[op.arg.vbos[k]].bytesPerItem = VertexBytes(bufs[op.arg.vbos[k]])

\* the same of a NewVao call given each VBO once, none of them given to
\* NewVao before
C15_BytesPerItemOfNewVbos ==
    (/\ op.name = "NewVao"
     /\ \A j \in DOMAIN op.arg.vbos : \A k \in DOMAIN op.arg.vbos :
            op.arg.vbos[j] = op.arg.vbos[k] => j = k
     /\ \A k \in DOMAIN op.arg.vbos : op.arg.before[op.arg.vbos[k]].bytesPerItem = 0)
    => \A k \in DOMAIN op.arg.vbos :
            bufs[op.arg.vbos[k]].bytesPerItem = VertexBytes(bufs[op.arg.vbos[k]])

====
